---- MODULE Spec2Model ----
(***************************************************************************)
(* The contact store of App.tsx and the operations that change it: save,   *)
(* delete, relation-add, enrich (with discovery) and merge, together with  *)
(* the oracle calls of the service module (enrichContactProfile,           *)
(* mergeContactsSmartly, searchPersonInfo) that they suspend on.           *)
(*                                                                         *)
(* A JavaScript object is a function from field names to values; a field   *)
(* the object lacks (undefined) is a name outside its DOMAIN.  An array is *)
(* a sequence.  A string that the code only compares is a string; a string *)
(* the code builds (notes, summary) is a sequence of tokens.               *)
(***************************************************************************)
EXTENDS Naturals, Sequences, FiniteSets, TLC

VARIABLES
    contacts,           \* useState<Contact[]>: the store
    selectedContactId,  \* id of the contact in the detail pane, NoId for null
    viewMode,           \* "LIST" or "GRAPH"
    isMergeMode,
    mergeSelection,     \* a JS Set: its members in the order of insertion
    isMerging,
    mergeOps,           \* merges suspended on the oracle (their closures)
    enrichOps,          \* enriches suspended on the oracle (their closures)
    searchOps,          \* searches suspended on the oracle (their closures)
    isSearching,
    enrichMode,         \* "WEB" or "MANUAL"
    searchResults,      \* <<>> for null, <<r>> for a result
    manualText,
    deleteTargetId,     \* NoId for null
    nextId,             \* the next value of the id generators
    ops,                \* operations started so far
    crashed,            \* a render threw: React has unmounted the tree
    deletedIds,         \* history: the ids confirmDelete has removed
    last                \* what the last step did (its outcome, as the user sees it)

vars == << contacts, selectedContactId, viewMode, isMergeMode, mergeSelection,
           isMerging, mergeOps, enrichOps, searchOps, isSearching, enrichMode,
           searchResults, manualText, deleteTargetId, nextId, ops, crashed,
           deletedIds, last >>

-----------------------------------------------------------------------------
(* Bounds of the model *)

\* operations started in one behaviour: saves, deletes, relation-adds and
\* oracle calls (search, enrich, merge)
MaxOps == 2

\* contacts selected for one merge
MaxSelected == 2

-----------------------------------------------------------------------------
(* Values *)

NoId == 0
UNDEF == "undefined"

\* '\n\n', the separator of the merged notes
SEP == "\n\n"

RelatedPerson(n, r) == [name |-> n, relationship |-> r]

INITIAL_CONTACTS ==
    << [ id |-> 1, name |-> "LiMing", title |-> "PM", company |-> "ByteDance",
         tags |-> <<"Product", "AI">>, summary |-> <<"s1">>, notes |-> <<"n1">>,
         relatedPeople |-> << RelatedPerson("WangQiang", "Colleague") >> ],
       [ id |-> 2, name |-> "WangQiang", title |-> "CTO", company |-> "ByteDance",
         tags |-> <<"Engineering">>, summary |-> <<"s2">>, notes |-> <<>>,
         relatedPeople |-> << RelatedPerson("LiMing", "Colleague") >> ],
       [ id |-> 3, name |-> "ZhangWei", title |-> "Investor", company |-> "Sequoia",
         tags |-> <<"VC">>, summary |-> <<"s3">>, notes |-> <<>>,
         relatedPeople |-> << >> ] >>

-----------------------------------------------------------------------------
(* JavaScript helpers *)

Has(o, f) == f \in DOMAIN o

\* { ...a, ...b }
Spread(a, b) ==
    [f \in (DOMAIN a) \cup (DOMAIN b) |-> IF f \in DOMAIN b THEN b[f] ELSE a[f]]

\* o.name, undefined when the object has none
NameOf(o) == IF Has(o, "name") THEN o.name ELSE UNDEF

Range(s) == {s[i] : i \in 1..Len(s)}

Ids(store) == {store[i].id : i \in 1..Len(store)}

Names(store) == {NameOf(store[i]) : i \in 1..Len(store)}

\* array.find(c => c.id === id): the index of the first match, 0 for none
FindIndex(store, id) ==
    IF id \in Ids(store)
    THEN CHOOSE i \in 1..Len(store) :
            store[i].id = id /\ \A j \in 1..(i - 1) : store[j].id # id
    ELSE 0

\* array.filter(c => ids.includes(c.id))
FilterIn(store, ids) == SelectSeq(store, LAMBDA c : c.id \in ids)

\* array.filter(c => !ids.includes(c.id))
FilterOut(store, ids) == SelectSeq(store, LAMBDA c : c.id \notin ids)

\* whether an array of related people has two entries of one name
HasDupNames(rels) ==
    \E i, j \in 1..Len(rels) : i < j /\ NameOf(rels[i]) = NameOf(rels[j])

\* array.map(c => c.notes).join('\n\n')
RECURSIVE JoinNotes(_)
JoinNotes(cs) ==
    IF Len(cs) = 0 THEN << >>
    ELSE IF Len(cs) = 1 THEN cs[1].notes
    ELSE cs[1].notes \o << SEP >> \o JoinNotes(Tail(cs))

-----------------------------------------------------------------------------
(* The oracle.  A call ends in one of: the call throws ("throw"), its text *)
(* is not JSON ("unparseable"), or its text parses to one of a few objects *)

EmptyObject == [f \in {} |-> TRUE]

EnrichOutcomes == {"throw", "unparseable", "EDiscover", "EId", "EMalformed"}

\* JSON.parse(jsonStr) of an enrich response
EnrichUpdates(out) ==
    CASE out = "EDiscover" ->
            [ summary |-> <<"s+">>,
              relatedPeople |-> << RelatedPerson("Zhao", "Partner Company"),
                                   RelatedPerson("WangQiang", "Colleague"),
                                   RelatedPerson("Zhao", "Friend") >> ]
      [] out = "EId" -> [ id |-> 2, tags |-> <<"AI">> ]
      [] out = "EMalformed" ->
            [ relatedPeople |-> << RelatedPerson("Zhao", "Friend"),
                                   [name |-> "Qian"] >> ]

MergeOutcomes == {"throw", "unparseable", "MFull", "MDup", "MEmpty"}

\* JSON.parse(jsonStr) of a merge response
MergeData(out) ==
    CASE out = "MEmpty" -> EmptyObject
      [] out = "MFull" ->
            [ id |-> 3, name |-> "LiMing", title |-> "PM", company |-> "ByteDance",
              tags |-> <<"Product", "AI", "Engineering">>, summary |-> <<"sm">>,
              relatedPeople |-> << RelatedPerson("ZhangWei", "Friend") >> ]
      [] out = "MDup" ->
            [ name |-> "WangQiang", title |-> "CTO", company |-> "ByteDance",
              tags |-> <<"Engineering">>, summary |-> <<"sm">>,
              relatedPeople |-> << RelatedPerson("ZhangWei", "Friend"),
                                   RelatedPerson("ZhangWei", "Boss") >> ]

-----------------------------------------------------------------------------
(* The service module.  A call yields [threw, value]: the promise rejects, *)
(* or resolves to value                                                    *)

Threw == [threw |-> TRUE]
Returned(v) == [threw |-> FALSE, value |-> v]

\* a variant in which the fields of the contact override the updates
enrichContactProfileKeepsOld(currentContact, out) ==
    IF out = "throw" THEN Threw
    ELSE IF out = "unparseable" THEN Returned(currentContact)
    ELSE Returned(Spread(EnrichUpdates(out), currentContact))

enrichContactProfile(currentContact, out) ==
    IF out = "throw" THEN Threw
    ELSE IF out = "unparseable" THEN Returned(currentContact)
    ELSE Returned(Spread(currentContact, EnrichUpdates(out)))

\* the part of mergeContactsSmartly before the oracle call: no call is made
\* for fewer than two contacts
MergeNeedsOracle(cs) == Len(cs) >= 2

\* a variant in which the fields of the oracle's object are spread last, so
\* that an id or notes it holds override the survivor's
mergeContactsSmartlyOracleWins(cs, out) ==
    IF Len(cs) = 0 THEN Threw
    ELSE IF Len(cs) = 1 THEN Returned(cs[1])
    ELSE IF out = "throw" THEN Threw
    ELSE IF out = "unparseable" THEN Returned(cs[1])
    ELSE Returned(Spread([id |-> cs[1].id, notes |-> JoinNotes(cs)],
                         MergeData(out)))

\* a variant without the return of a lone contact: it goes to the oracle
mergeContactsSmartlyAlwaysAsks(cs, out) ==
    IF Len(cs) = 0 THEN Threw
    ELSE IF out \in {"throw", "none"} THEN Threw
    ELSE IF out = "unparseable" THEN Returned(cs[1])
    ELSE Returned(Spread(MergeData(out),
                         [id |-> cs[1].id, notes |-> JoinNotes(cs)]))

mergeContactsSmartly(cs, out) ==
    IF Len(cs) = 0 THEN Threw
    ELSE IF Len(cs) = 1 THEN Returned(cs[1])
    ELSE IF out = "throw" THEN Threw
    ELSE IF out = "unparseable" THEN Returned(cs[1])
    ELSE Returned(Spread(MergeData(out),
                         [id |-> cs[1].id, notes |-> JoinNotes(cs)]))

-----------------------------------------------------------------------------
(* handleEnrich, step 2: discovery of new contacts *)

ORG_TITLE == "OrgTitle"
DISCOVERED_TAG == "AI-Discovered"

\* JavaScript strings as the sequences of their characters
Chars(l) ==
    CASE l = "Friend" ->
            << "F", "r", "i", "e", "n", "d" >>
      [] l = "Colleague" ->
            << "C", "o", "l", "l", "e", "a", "g", "u", "e" >>
      [] l = "Boss" ->
            << "B", "o", "s", "s" >>
      [] l = "Mentor" ->
            << "M", "e", "n", "t", "o", "r" >>
      [] l = "Origin Connection" ->
            << "O", "r", "i", "g", "i", "n", " ", "C", "o", "n", "n", "e", "c", "t", "i", "o", "n" >>
      [] l = "Partner Company" ->
            << "P", "a", "r", "t", "n", "e", "r", " ", "C", "o", "m", "p", "a", "n", "y" >>
      [] l = "ORGANIZATION" ->
            << "O", "R", "G", "A", "N", "I", "Z", "A", "T", "I", "O", "N" >>
      [] l = "Companion" ->
            << "C", "o", "m", "p", "a", "n", "i", "o", "n" >>
      [] l = "Org" ->
            << "O", "r", "g" >>
      [] l = "Non-profit Organization" ->
            << "N", "o", "n", "-", "p", "r", "o", "f", "i", "t", " ", "O", "r", "g", "a", "n", "i", "z", "a", "t", "i", "o", "n" >>
      [] l = "" -> << >>
      [] l = "resume" ->
            << "r", "e", "s", "u", "m", "e" >>
      [] l = "see https://a.io/1" ->
            << "s", "e", "e", " ", "h", "t", "t", "p", "s", ":", "/", "/", "a", ".", "i", "o", "/", "1" >>
      [] l = "http://b.io/2" ->
            << "h", "t", "t", "p", ":", "/", "/", "b", ".", "i", "o", "/", "2" >>
      [] l = "linkedin.com/in/x" ->
            << "l", "i", "n", "k", "e", "d", "i", "n", ".", "c", "o", "m", "/", "i", "n", "/", "x" >>

UpperCase == << "A", "B", "C", "D", "E", "F", "G", "H", "I", "J", "K", "L", "M", "N", "O", "P", "Q", "R", "S", "T", "U", "V", "W", "X", "Y", "Z" >>
LowerCase == << "a", "b", "c", "d", "e", "f", "g", "h", "i", "j", "k", "l", "m", "n", "o", "p", "q", "r", "s", "t", "u", "v", "w", "x", "y", "z" >>

\* String.prototype.toLowerCase
toLowerCase(str) ==
    [i \in 1..Len(str) |->
        IF \E k \in 1..Len(UpperCase) : UpperCase[k] = str[i]
        THEN LowerCase[CHOOSE k \in 1..Len(UpperCase) : UpperCase[k] = str[i]]
        ELSE str[i]]

\* String.prototype.includes
includes(str, sub) ==
    \E i \in 0..(Len(str) - Len(sub)) : SubSeq(str, i + 1, i + Len(sub)) = sub

\* the labels the model's contacts and oracle objects carry, with some more
KnownLabels ==
    { "Friend", "Colleague", "Boss", "Mentor", "Origin Connection",
      "Partner Company", "ORGANIZATION", "Companion", "Org",
      "Non-profit Organization" }

\* rel.relationship.toLowerCase().includes('organization') || ...('company')
\* for each label
isOrgByLabel ==
    [ l \in KnownLabels |->
        \/ includes(toLowerCase(Chars(l)), << "o", "r", "g", "a", "n", "i", "z", "a", "t", "i", "o", "n" >>)
        \/ includes(toLowerCase(Chars(l)), << "c", "o", "m", "p", "a", "n", "y" >>) ]

\* a variant of IsOrg that does not lower the case of the label
IsOrgCaseSensitive(rel) ==
    \/ includes(Chars(rel.relationship), << "o", "r", "g", "a", "n", "i", "z", "a", "t", "i", "o", "n" >>)
    \/ includes(Chars(rel.relationship), << "c", "o", "m", "p", "a", "n", "y" >>)

\* const isOrg = ...
IsOrg(rel) == isOrgByLabel[rel.relationship]

\* the contact pushed for a related person the name set does not hold
AutoContact(rel, enrichedName, id) ==
    [ id |-> id,
      name |-> rel.name,
      title |-> IF IsOrg(rel) THEN ORG_TITLE ELSE rel.relationship,
      company |-> IF IsOrg(rel) THEN rel.name ELSE "",
      tags |-> << DISCOVERED_TAG, IF IsOrg(rel) THEN "Organization" ELSE "Person" >>,
      summary |-> << "auto", enrichedName, rel.relationship >>,
      notes |-> << >>,
      relatedPeople |-> << RelatedPerson(enrichedName, "Origin Connection") >> ]

\* enriched.relatedPeople.forEach(...): the contacts pushed, in order, or a
\* TypeError (rel.relationship.toLowerCase() of an entry with no relationship)
RECURSIVE Discover(_, _, _, _)
Discover(rels, existingNames, enrichedName, id) ==
    IF Len(rels) = 0 THEN Returned(<< >>)
    ELSE IF NameOf(rels[1]) \in existingNames
         THEN Discover(Tail(rels), existingNames, enrichedName, id)
    ELSE IF ~Has(rels[1], "relationship") THEN Threw
    ELSE LET rest == Discover(Tail(rels), existingNames \cup {NameOf(rels[1])},
                              enrichedName, id + 1)
         IN  IF rest.threw THEN Threw
             ELSE Returned(<< AutoContact(rels[1], enrichedName, id) >> \o rest.value)

\* steps 1-2 of handleEnrich after the await: [threw] or
\* [enriched, newAutoContacts]
EnrichResult(op, out, id) ==
    LET r == enrichContactProfile(op.cur, out)
    IN  IF r.threw THEN Threw
        ELSE IF ~Has(r.value, "relatedPeople") THEN Threw
        ELSE LET d == Discover(r.value.relatedPeople,
                               op.names \cup {NameOf(r.value)},
                               NameOf(r.value), id)
             IN  IF d.threw THEN Threw
                 ELSE Returned([enriched |-> r.value, newAutoContacts |-> d.value])

\* step 3: prev.map(c => c.id === enriched.id ? enriched : c) followed by
\* the new contacts
ApplyEnrich(prev, enriched, newAutoContacts) ==
    [i \in 1..Len(prev) |-> IF prev[i].id = enriched.id THEN enriched ELSE prev[i]]
        \o newAutoContacts

-----------------------------------------------------------------------------
(* handleConfirmMerge *)

\* a variant that puts the merged contact in front of the whole store
ApplyMergeKeepsSelected(prev, mergedContact, selectedIds) ==
    << mergedContact >> \o prev

\* setContacts(prev => [mergedContact, ...others])
ApplyMerge(prev, mergedContact, selectedIds) ==
    << mergedContact >> \o FilterOut(prev, Range(selectedIds))

-----------------------------------------------------------------------------
(* handleAddRelation *)

HasRelationTo(c, n) ==
    \E i \in 1..Len(c.relatedPeople) : NameOf(c.relatedPeople[i]) = n

\* a variant of the updater without the two "Prevent duplicates" tests
AddRelationNoCheck(prev, selected, target, relType) ==
    [i \in 1..Len(prev) |->
        IF prev[i].id = selected.id
        THEN [prev[i] EXCEPT !.relatedPeople =
                   Append(@, RelatedPerson(NameOf(target), relType))]
        ELSE IF prev[i].id = target.id
        THEN [prev[i] EXCEPT !.relatedPeople =
                   Append(@, RelatedPerson(NameOf(selected), relType))]
        ELSE prev[i]]

\* the updater passed to setContacts
AddRelation(prev, selected, target, relType) ==
    [i \in 1..Len(prev) |->
        IF prev[i].id = selected.id
        THEN IF HasRelationTo(prev[i], NameOf(target)) THEN prev[i]
             ELSE [prev[i] EXCEPT !.relatedPeople =
                        Append(@, RelatedPerson(NameOf(target), relType))]
        ELSE IF prev[i].id = target.id
        THEN IF HasRelationTo(prev[i], NameOf(selected)) THEN prev[i]
             ELSE [prev[i] EXCEPT !.relatedPeople =
                        Append(@, RelatedPerson(NameOf(selected), relType))]
        ELSE prev[i]]

\* the updater reads c.relatedPeople of the two contacts: a TypeError when
\* one of them has none
AddRelationThrows(prev, selected, target) ==
    \E i \in 1..Len(prev) :
        /\ prev[i].id \in {selected.id, target.id}
        /\ ~Has(prev[i], "relatedPeople")

-----------------------------------------------------------------------------
(* NetworkGraph: the links the effect derives from the contacts *)

\* source.id < target.id: ids are ordered as the naturals are, a strict
\* total order as the order of JavaScript strings is
IdLess(a, b) == a < b

\* contactMap.get(n) of new Map(contacts.map(c => [c.name, c.id])): the id
\* of the last contact of that name, NoId (undefined) for none
contactMapGet(store, n) ==
    IF n \in Names(store)
    THEN LET at == { i \in 1..Len(store) : NameOf(store[i]) = n }
         IN  store[CHOOSE i \in at : \A j \in at : j <= i].id
    ELSE NoId

Link(s, t, v, ty) == [source |-> s, target |-> t, value |-> v, type |-> ty]

\* a variant of ExplicitLinks that pushes a link for every related person,
\* found or not
RECURSIVE ExplicitLinksNoTest(_, _, _)
ExplicitLinksNoTest(store, source, rels) ==
    IF Len(rels) = 0 THEN << >>
    ELSE << Link(source.id, contactMapGet(store, NameOf(rels[1])), 2,
                 IF Has(rels[1], "relationship") THEN rels[1].relationship
                 ELSE UNDEF) >>
         \o ExplicitLinksNoTest(store, source, Tail(rels))

\* source.relatedPeople.forEach(rel => ...), over the related people rels
RECURSIVE ExplicitLinks(_, _, _)
ExplicitLinks(store, source, rels) ==
    IF Len(rels) = 0 THEN << >>
    ELSE LET targetId == contactMapGet(store, NameOf(rels[1]))
             rest == ExplicitLinks(store, source, Tail(rels))
         IN  IF targetId # NoId
             THEN << Link(source.id, targetId, 2,
                          IF Has(rels[1], "relationship")
                          THEN rels[1].relationship ELSE UNDEF) >> \o rest
             ELSE rest

\* a variant of CompanyLinks without the test source.id < target.id
CompanyLinksBothWays(store, source) ==
    IF Has(source, "company") /\ source.company # ""
    THEN LET targets == SelectSeq(store, LAMBDA t :
                            /\ source.id # t.id
                            /\ Has(t, "company") /\ source.company = t.company)
         IN  [k \in 1..Len(targets) |->
                 Link(source.id, targets[k].id, 1, "Colleague")]
    ELSE << >>

\* if (source.company) contacts.forEach(target => ...)
CompanyLinks(store, source) ==
    IF Has(source, "company") /\ source.company # ""
    THEN LET targets == SelectSeq(store, LAMBDA t :
                            /\ source.id # t.id
                            /\ Has(t, "company") /\ source.company = t.company
                            /\ IdLess(source.id, t.id))
         IN  [k \in 1..Len(targets) |->
                 Link(source.id, targets[k].id, 1, "Colleague")]
    ELSE << >>

\* contacts.forEach(source => ...) from the k-th contact on
RECURSIVE LinksFrom(_, _)
LinksFrom(store, k) ==
    IF k > Len(store) THEN << >>
    ELSE ExplicitLinks(store, store[k], store[k].relatedPeople)
         \o CompanyLinks(store, store[k])
         \o LinksFrom(store, k + 1)

\* the links of the effect, or the TypeError of
\* source.relatedPeople.forEach on a contact without relatedPeople
deriveLinks(store) ==
    IF \E i \in 1..Len(store) : ~Has(store[i], "relatedPeople") THEN Threw
    ELSE Returned(LinksFrom(store, 1))

-----------------------------------------------------------------------------
(* Rendering.  A TypeError in a render or an effect unmounts the tree *)

\* the list pane and, for a selected contact, the detail pane
RendersList(store, sel) ==
    /\ \A i \in 1..Len(store) : Has(store[i], "name") /\ Has(store[i], "tags")
    /\ sel \in Ids(store) =>
         LET c == store[FindIndex(store, sel)]
         IN  /\ Has(c, "relatedPeople")
             /\ \A j \in 1..Len(c.relatedPeople) : Has(c.relatedPeople[j], "name")

\* the effect of NetworkGraph
RendersGraph(store) ==
    /\ ~deriveLinks(store).threw
    /\ \A i \in 1..Len(store) : Has(store[i], "name")

Renders(store, sel, view) ==
    IF view = "LIST" THEN RendersList(store, sel) ELSE RendersGraph(store)

-----------------------------------------------------------------------------
(* The state after construction *)

\* the state of App after its first render, the record of the last step aside
Constructed ==
    /\ contacts = INITIAL_CONTACTS
    /\ selectedContactId = NoId
    /\ viewMode = "LIST"
    /\ isMergeMode = FALSE
    /\ mergeSelection = << >>
    /\ isMerging = FALSE
    /\ mergeOps = << >>
    /\ enrichOps = << >>
    /\ searchOps = << >>
    /\ isSearching = FALSE
    /\ enrichMode = "WEB"
    /\ searchResults = << >>
    /\ manualText = ""
    /\ deleteTargetId = NoId
    /\ nextId = 4
    /\ ops = 0
    /\ crashed = FALSE
    /\ deletedIds = {}

Init ==
    /\ Constructed
    /\ last = [op |-> "init"]

-----------------------------------------------------------------------------
(* Pieces shared by the handlers *)

\* every operation the behaviour may start has run to its end
Done ==
    /\ ops = MaxOps
    /\ mergeOps = << >> /\ enrichOps = << >> /\ searchOps = << >>

\* a click reaches the page: the tree is mounted and no modal covers it
\* (the behaviour is followed until its last operation ends)
CanClick == ~crashed /\ deleteTargetId = NoId /\ ~Done

\* the detail pane shows the selected contact
DetailShown == viewMode = "LIST" /\ selectedContactId \in Ids(contacts)

selectedContact == contacts[FindIndex(contacts, selectedContactId)]

\* the effect on [selectedContactId]: a changed selection resets the
\* enrichment inputs; otherwise they become sr, mt, em
Evidence(newSel, sr, mt, em) ==
    IF newSel # selectedContactId
    THEN searchResults' = << >> /\ manualText' = "" /\ enrichMode' = "WEB"
    ELSE searchResults' = sr /\ manualText' = mt /\ enrichMode' = em

Remove(s, i) == [j \in 1..(Len(s) - 1) |-> IF j < i THEN s[j] ELSE s[j + 1]]

UI == [op |-> "ui"]

-----------------------------------------------------------------------------
(* Navigation and selection *)

\* a click on a contact of the list, outside merge mode
ListClick(id) ==
    /\ CanClick /\ viewMode = "LIST" /\ ~isMergeMode
    /\ id \in Ids(contacts)
    /\ selectedContactId' = id
    /\ Evidence(id, searchResults, manualText, enrichMode)
    /\ crashed' = ~Renders(contacts, id, viewMode)
    /\ last' = UI
    /\ UNCHANGED << contacts, viewMode, isMergeMode, mergeSelection, isMerging,
                    mergeOps, enrichOps, searchOps, isSearching, deleteTargetId,
                    nextId, ops >>
    /\ UNCHANGED deletedIds

\* onNodeClick of the graph
NodeClick(id) ==
    /\ CanClick /\ viewMode = "GRAPH"
    /\ id \in Ids(contacts)
    /\ selectedContactId' = id
    /\ viewMode' = "LIST"
    /\ Evidence(id, searchResults, manualText, enrichMode)
    /\ crashed' = ~Renders(contacts, id, "LIST")
    /\ last' = UI
    /\ UNCHANGED << contacts, isMergeMode, mergeSelection, isMerging, mergeOps,
                    enrichOps, searchOps, isSearching, deleteTargetId, nextId, ops >>
    /\ UNCHANGED deletedIds

\* the graph button of the sidebar
ShowGraph ==
    /\ CanClick /\ viewMode = "LIST"
    /\ viewMode' = "GRAPH"
    /\ crashed' = ~Renders(contacts, selectedContactId, "GRAPH")
    /\ last' = UI
    /\ UNCHANGED << contacts, selectedContactId, isMergeMode, mergeSelection,
                    isMerging, mergeOps, enrichOps, searchOps, isSearching,
                    enrichMode, searchResults, manualText, deleteTargetId,
                    nextId, ops >>
    /\ UNCHANGED deletedIds

\* the merge button of the sidebar.  (The list button beside it does what
\* this one does when it leaves merge mode, but keeps mergeSelection, which
\* nothing reads outside merge mode and which entering merge mode empties;
\* it adds no behaviour and is left out.)
ToggleMergeMode ==
    /\ CanClick
    /\ viewMode' = "LIST"
    /\ isMergeMode' = ~isMergeMode
    /\ selectedContactId' = NoId
    /\ mergeSelection' = << >>
    /\ Evidence(NoId, searchResults, manualText, enrichMode)
    /\ crashed' = ~Renders(contacts, NoId, "LIST")
    /\ last' = UI
    /\ UNCHANGED << contacts, isMerging, mergeOps, enrichOps, searchOps,
                    isSearching, deleteTargetId, nextId, ops >>
    /\ UNCHANGED deletedIds

toggleMergeSelection(id) ==
    /\ CanClick /\ viewMode = "LIST" /\ isMergeMode
    /\ id \in Ids(contacts)
    /\ id \in Range(mergeSelection) \/ Len(mergeSelection) < MaxSelected
    /\ mergeSelection' = IF id \in Range(mergeSelection)
                         THEN SelectSeq(mergeSelection, LAMBDA x : x # id)
                         ELSE Append(mergeSelection, id)
    /\ last' = UI
    /\ UNCHANGED << contacts, selectedContactId, viewMode, isMergeMode, isMerging,
                    mergeOps, enrichOps, searchOps, isSearching, enrichMode,
                    searchResults, manualText, deleteTargetId, nextId, ops,
                    crashed >>
    /\ UNCHANGED deletedIds

-----------------------------------------------------------------------------
(* Save, delete, relation-add *)

Previews == {"PNew"}

\* previewContact as the user confirms it
PreviewContact(p) ==
    CASE p = "PNew" ->
            [ name |-> "Zhao", company |-> "ByteDance", tags |-> <<"AI">>,
              relatedPeople |-> << RelatedPerson("LiMing", "Friend") >> ]

\* x || d
OrDefault(o, f, d) == IF Has(o, f) THEN o[f] ELSE d

NewContact(preview, id) ==
    [ id |-> id,
      name |-> preview.name,
      title |-> OrDefault(preview, "title", ""),
      company |-> OrDefault(preview, "company", ""),
      tags |-> OrDefault(preview, "tags", << >>),
      summary |-> OrDefault(preview, "summary", << >>),
      notes |-> << >>,
      relatedPeople |-> OrDefault(preview, "relatedPeople", << >>) ]

handleSaveContact(p) ==
    /\ CanClick
    /\ ops < MaxOps
    /\ ops' = ops + 1
    /\ Has(PreviewContact(p), "name")
    /\ LET newContact == NewContact(PreviewContact(p), nextId)
       IN  /\ contacts' = Append(contacts, newContact)
           /\ selectedContactId' = newContact.id
           /\ viewMode' = "LIST"
           /\ Evidence(newContact.id, searchResults, manualText, enrichMode)
           /\ crashed' = ~Renders(contacts', newContact.id, "LIST")
           /\ last' = [op |-> "save", before |-> contacts, id |-> newContact.id]
    /\ nextId' = nextId + 1
    /\ UNCHANGED << isMergeMode, mergeSelection, isMerging, mergeOps, enrichOps,
                    searchOps, isSearching, deleteTargetId >>
    /\ UNCHANGED deletedIds

\* the delete button of the detail pane
RequestDelete ==
    /\ CanClick /\ DetailShown
    /\ ops < MaxOps
    /\ deleteTargetId' = selectedContactId
    /\ last' = UI
    /\ UNCHANGED << contacts, selectedContactId, viewMode, isMergeMode,
                    mergeSelection, isMerging, mergeOps, enrichOps, searchOps,
                    isSearching, enrichMode, searchResults, manualText, nextId,
                    ops, crashed >>
    /\ UNCHANGED deletedIds

\* the cancel button of the confirmation
CancelDelete ==
    /\ ~crashed /\ deleteTargetId # NoId
    /\ deleteTargetId' = NoId
    /\ last' = UI
    /\ UNCHANGED << contacts, selectedContactId, viewMode, isMergeMode,
                    mergeSelection, isMerging, mergeOps, enrichOps, searchOps,
                    isSearching, enrichMode, searchResults, manualText, nextId,
                    ops, crashed >>
    /\ UNCHANGED deletedIds

confirmDelete ==
    /\ ~crashed /\ deleteTargetId # NoId
    /\ ops' = ops + 1
    /\ contacts' = FilterOut(contacts, {deleteTargetId})
    /\ selectedContactId' =
          IF selectedContactId = deleteTargetId THEN NoId ELSE selectedContactId
    /\ Evidence(selectedContactId',
                IF selectedContactId = deleteTargetId THEN << >> ELSE searchResults,
                manualText, enrichMode)
    /\ deleteTargetId' = NoId
    /\ crashed' = ~Renders(contacts', selectedContactId', viewMode)
    /\ last' = [op |-> "delete", before |-> contacts, id |-> deleteTargetId]
    /\ deletedIds' = deletedIds \cup {deleteTargetId}
    /\ UNCHANGED << viewMode, isMergeMode, mergeSelection, isMerging, mergeOps,
                    enrichOps, searchOps, isSearching, nextId >>

Labels == {"Friend"}

\* relTargetId and relType are the inputs of the relation modal
handleAddRelation(relTargetId, relType) ==
    /\ CanClick /\ DetailShown
    \* potentialTargets: the other contacts
    /\ relTargetId \in Ids(contacts) \ {selectedContactId}
    /\ ops < MaxOps
    /\ ops' = ops + 1
    /\ LET targetContact == contacts[FindIndex(contacts, relTargetId)]
       IN  IF AddRelationThrows(contacts, selectedContact, targetContact)
           THEN /\ crashed' = TRUE
                /\ last' = [op |-> "addRelation", before |-> contacts,
                            threw |-> TRUE]
                /\ UNCHANGED contacts
           ELSE /\ contacts' = AddRelation(contacts, selectedContact,
                                           targetContact, relType)
                /\ crashed' = ~Renders(contacts', selectedContactId, viewMode)
                /\ last' = [op |-> "addRelation", before |-> contacts,
                            threw |-> FALSE, selected |-> selectedContactId,
                            target |-> relTargetId, relType |-> relType]
    /\ UNCHANGED << selectedContactId, viewMode, isMergeMode, mergeSelection,
                    isMerging, mergeOps, enrichOps, searchOps, isSearching,
                    enrichMode, searchResults, manualText, deleteTargetId,
                    nextId >>
    /\ UNCHANGED deletedIds

-----------------------------------------------------------------------------
(* Enrichment inputs and the web search *)

ManualTexts == {"", "resume"}

\* the two tabs of the enrichment area
setEnrichMode(m) ==
    /\ CanClick /\ DetailShown
    /\ m \in {"WEB", "MANUAL"} /\ m # enrichMode
    /\ enrichMode' = m
    /\ last' = UI
    /\ UNCHANGED << contacts, selectedContactId, viewMode, isMergeMode,
                    mergeSelection, isMerging, mergeOps, enrichOps, searchOps,
                    isSearching, searchResults, manualText, deleteTargetId,
                    nextId, ops, crashed >>
    /\ UNCHANGED deletedIds

\* the text area of the manual tab
setManualText(t) ==
    /\ CanClick /\ DetailShown /\ enrichMode = "MANUAL"
    /\ t \in ManualTexts /\ t # manualText
    /\ manualText' = t
    /\ last' = UI
    /\ UNCHANGED << contacts, selectedContactId, viewMode, isMergeMode,
                    mergeSelection, isMerging, mergeOps, enrichOps, searchOps,
                    isSearching, enrichMode, searchResults, deleteTargetId,
                    nextId, ops, crashed >>
    /\ UNCHANGED deletedIds

\* handleSearchInfo up to its await; the button shows on the web tab while
\* there are no results and nothing is loading
handleSearchInfo ==
    /\ CanClick /\ DetailShown
    /\ enrichMode = "WEB" /\ searchResults = << >> /\ ~isSearching
    /\ ops < MaxOps
    /\ ops' = ops + 1
    /\ isSearching' = TRUE
    /\ searchResults' = << >>
    /\ enrichMode' = "WEB"
    /\ searchOps' = Append(searchOps, [name |-> NameOf(selectedContact)])
    /\ last' = [op |-> "searchStart", id |-> selectedContactId]
    /\ UNCHANGED << contacts, selectedContactId, viewMode, isMergeMode,
                    mergeSelection, isMerging, mergeOps, enrichOps, manualText,
                    deleteTargetId, nextId, crashed >>
    /\ UNCHANGED deletedIds

SearchOutcomes == {"throw", "SFound", "SEmpty"}

\* response.text of a search: text about the name asked for, or nothing
SearchText(name, out) == IF out = "SEmpty" THEN << >> ELSE << "about", name >>

\* the grounding chunks of a search response (none, in these outcomes)
SearchChunks(out) == << >>

\* new URL(uri).hostname
hostname(uri) ==
    CASE uri = "https://a.io/1" -> "a.io"
      [] uri = "https://b.io/2" -> "b.io"

\* groundingChunks.filter(chunk => chunk.web?.uri).map(...): a chunk is the
\* object chunk.web, with uri and, possibly, title
RECURSIVE SourcesOf(_)
SourcesOf(chunks) ==
    IF Len(chunks) = 0 THEN << >>
    ELSE IF ~Has(chunks[1], "uri") THEN SourcesOf(Tail(chunks))
    ELSE << [ title |-> IF Has(chunks[1], "title") THEN chunks[1].title
                        ELSE "Web Source",
              snippet |-> "Click to visit source",
              url |-> chunks[1].uri,
              source |-> hostname(chunks[1].uri) ] >>
         \o SourcesOf(Tail(chunks))

\* Array.from(new Map(sources.map(item => [item.url, item])).values()): a
\* Map keeps a key at the place of its first insertion, with the value of
\* its last
uniqueSources(sources) ==
    LET firsts == SelectSeq([i \in 1..Len(sources) |-> i],
                            LAMBDA i : \A j \in 1..(i - 1) :
                                          sources[j].url # sources[i].url)
    IN  [k \in 1..Len(firsts) |->
            LET same == { j \in 1..Len(sources) :
                             sources[j].url = sources[firsts[k]].url }
            IN  sources[CHOOSE j \in same : \A x \in same : x <= j]]

\* what searchPersonInfo returns for a response text and its chunks
SearchResultOf(text, chunks) ==
    [summary |-> text, sources |-> uniqueSources(SourcesOf(chunks))]

searchPersonInfo(name, out) ==
    IF out = "throw" THEN Threw
    ELSE Returned(SearchResultOf(SearchText(name, out), SearchChunks(out)))

\* handleSearchInfo after its await
SearchReturn(i, out) ==
    /\ ~crashed
    /\ i \in 1..Len(searchOps) /\ out \in SearchOutcomes
    /\ LET r == searchPersonInfo(searchOps[i].name, out)
       IN  /\ searchResults' = IF r.threw THEN searchResults ELSE << r.value >>
           /\ last' = [op |-> "search", alert |-> IF r.threw THEN "searchFail" ELSE ""]
    /\ searchOps' = Remove(searchOps, i)
    /\ isSearching' = FALSE
    /\ UNCHANGED << contacts, selectedContactId, viewMode, isMergeMode,
                    mergeSelection, isMerging, mergeOps, enrichOps, enrichMode,
                    manualText, deleteTargetId, nextId, ops, crashed >>
    /\ UNCHANGED deletedIds

-----------------------------------------------------------------------------
(* enrichContactProfile: the request it sends and the cleaning of the       *)
(* response text                                                            *)

\* the manual texts the model uses, with some more
KnownTexts ==
    { "", "resume", "see https://a.io/1", "http://b.io/2", "linkedin.com/in/x" }

\* context.manualText.match(/https?:\/\//), for each text
matchesUrlByText ==
    [ t \in KnownTexts |->
        \/ includes(Chars(t), << "h", "t", "t", "p", ":", "/", "/" >>)
        \/ includes(Chars(t), << "h", "t", "t", "p", "s", ":", "/", "/" >>) ]

\* let useSearchTool
useSearchTool(context) ==
    /\ Has(context, "manualText") /\ context.manualText # ""
    /\ matchesUrlByText[context.manualText]

\* const requestConfig
requestConfig(useTool) ==
    IF useTool
    THEN [ tools |-> << "googleSearch" >> ]
    ELSE [ responseMimeType |-> "application/json", responseSchema |-> "Contact" ]

\* the parts of the prompt that depend on the context: the web summary, the
\* sources named as the only ones to consider, the manual text, the request
\* to visit its URLs, the images; and the config
EnrichRequest(context) ==
    LET web == Has(context, "webSummary") /\ context.webSummary # << >>
        only == web /\ Has(context, "validSources")
                    /\ Len(context.validSources) > 0
        manual == Has(context, "manualText") /\ context.manualText # ""
    IN  [ webSummary |-> IF web THEN context.webSummary ELSE << >>,
          restricted |-> only,
          onlySources |->
              IF only
              THEN [k \in 1..Len(context.validSources) |->
                       [ title |-> context.validSources[k].title,
                         source |-> context.validSources[k].source ]]
              ELSE << >>,
          manualText |-> IF manual THEN context.manualText ELSE "",
          visitUrls |-> useSearchTool(context),
          images |-> IF Has(context, "manualImages")
                     THEN context.manualImages ELSE << >>,
          config |-> requestConfig(useSearchTool(context)) ]

\* response texts, as sequences of pieces: code fences (three backticks,
\* with or without the json tag), line ends, JSON text, other text
ResponseTexts ==
    { << >>,
      << "{json}" >>,
      << "FENCE-JSON", "\n", "{json}", "\n", "FENCE" >>,
      << "FENCE", "\n", "{json}", "\n", "FENCE" >>,
      << "Here:", "FENCE-JSON", "{json}", "FENCE" >>,
      << "sorry" >> }

\* response.text || '{}', then the two replace calls that remove the code
\* fences (with and without the json tag), then trim(); no response text
\* here has a line end inside what is left
cleanJson(text) ==
    LET raw == IF text = << >> THEN << "{json}" >> ELSE text
    IN  SelectSeq(raw, LAMBDA x : x \notin {"FENCE-JSON", "FENCE", "\n"})

\* whether JSON.parse returns
parses(jsonStr) == jsonStr = << "{json}" >>

-----------------------------------------------------------------------------
(* Enrich *)

\* one of the two enrich buttons shows and is enabled
EnrichButton ==
    \/ enrichMode = "WEB" /\ searchResults # << >> /\ ~isSearching
    \/ enrichMode = "MANUAL" /\ manualText # ""

\* searchResults.sources.filter(s => s.url && !ignoredSourceUrls.has(s.url))
validSources(sources, ignored) ==
    SelectSeq(sources, LAMBDA src : Has(src, "url") /\ src.url \notin ignored)

\* the payload handleEnrich prepares from the mode, the search results, the
\* ignored urls, the manual text and the manual images
EnrichPayload(mode, sr, ignored, text, images) ==
    IF mode = "WEB" /\ sr # << >>
    THEN [ webSummary |-> sr[1].summary,
           validSources |-> validSources(sr[1].sources, ignored) ]
    ELSE IF mode = "MANUAL"
    THEN [ manualText |-> text, manualImages |-> images ]
    ELSE EmptyObject

\* handleEnrich up to its await.  The closure keeps the selected contact, the
\* contacts of this render (of which step 2 reads the names) and the payload
\* of the call.  No url is ignored (the searches return no source) and no
\* image is attached
handleEnrich ==
    /\ CanClick /\ DetailShown /\ EnrichButton
    /\ ops < MaxOps
    /\ ops' = ops + 1
    /\ isSearching' = TRUE
    /\ enrichOps' = Append(enrichOps,
                            [cur |-> selectedContact,
                             names |-> Names(contacts),
                             payload |-> EnrichPayload(enrichMode, searchResults,
                                                       {}, manualText, << >>)])
    /\ last' = [op |-> "enrichStart", id |-> selectedContactId]
    /\ UNCHANGED << contacts, selectedContactId, viewMode, isMergeMode,
                    mergeSelection, isMerging, mergeOps, searchOps, enrichMode,
                    searchResults, manualText, deleteTargetId, nextId, crashed >>
    /\ UNCHANGED deletedIds

\* handleEnrich after its await
EnrichReturn(i, out) ==
    /\ ~crashed
    /\ i \in 1..Len(enrichOps) /\ out \in EnrichOutcomes
    /\ LET op == enrichOps[i]
           r  == EnrichResult(op, out, nextId)
       IN  IF r.threw
           THEN /\ last' = [op |-> "enrich", out |-> out, alert |-> "enrichFail",
                            before |-> contacts, closure |-> op, stubs |-> << >>]
                /\ UNCHANGED << contacts, searchResults, manualText, nextId, crashed >>
           ELSE /\ contacts' = ApplyEnrich(contacts, r.value.enriched,
                                           r.value.newAutoContacts)
                /\ searchResults' = << >>
                /\ manualText' = ""
                /\ nextId' = nextId + Len(r.value.newAutoContacts)
                /\ crashed' = ~Renders(contacts', selectedContactId, viewMode)
                /\ last' = [op |-> "enrich", out |-> out, alert |-> "enrichOk",
                            before |-> contacts, closure |-> op,
                            enriched |-> r.value.enriched,
                            stubs |-> r.value.newAutoContacts]
    /\ enrichOps' = Remove(enrichOps, i)
    /\ isSearching' = FALSE
    /\ UNCHANGED << selectedContactId, viewMode, isMergeMode, mergeSelection,
                    isMerging, mergeOps, searchOps, enrichMode, deleteTargetId,
                    ops >>
    /\ UNCHANGED deletedIds

-----------------------------------------------------------------------------
(* Merge *)

\* handleConfirmMerge after mergeContactsSmartly settled with r
MergeSettled(selectedIds, cs, out, r) ==
    /\ IF r.threw
       THEN /\ last' = [op |-> "merge", out |-> out, alert |-> "mergeFail",
                        before |-> contacts, selectedIds |-> selectedIds, cs |-> cs,
                        result |-> r]
            /\ UNCHANGED << contacts, isMergeMode, mergeSelection,
                            selectedContactId, enrichMode, searchResults,
                            manualText, crashed >>
       ELSE /\ contacts' = ApplyMerge(contacts, r.value, selectedIds)
            /\ isMergeMode' = FALSE
            /\ mergeSelection' = << >>
            /\ selectedContactId' = r.value.id
            /\ Evidence(r.value.id, searchResults, manualText, enrichMode)
            /\ crashed' = ~Renders(contacts', r.value.id, viewMode)
            /\ last' = [op |-> "merge", out |-> out, alert |-> "mergeOk",
                        before |-> contacts, selectedIds |-> selectedIds, cs |-> cs,
                        result |-> r]
    /\ isMerging' = FALSE

\* a variant of the merge button that does not look at isMerging
MergeButtonIgnoresFlag == Len(mergeSelection) >= 2

\* the merge button: disabled={mergeSelection.size < 2 || isMerging}
MergeButtonEnabled == Len(mergeSelection) >= 2 /\ ~isMerging

\* handleConfirmMerge up to its await; with fewer than two contacts to merge
\* mergeContactsSmartly settles without a call and the handler runs on
handleConfirmMerge ==
    /\ CanClick /\ isMergeMode
    /\ MergeButtonEnabled
    /\ LET selectedIds == mergeSelection
           contactsToMerge == FilterIn(contacts, Range(selectedIds))
       IN  IF MergeNeedsOracle(contactsToMerge)
           THEN /\ ops < MaxOps
                /\ ops' = ops + 1
                /\ isMerging' = TRUE
                /\ mergeOps' = Append(mergeOps, [selectedIds |-> selectedIds,
                                                 cs |-> contactsToMerge])
                /\ last' = [op |-> "mergeStart", selectedIds |-> selectedIds]
                /\ UNCHANGED << contacts, isMergeMode, mergeSelection,
                                selectedContactId, enrichMode, searchResults,
                                manualText, crashed >>
           ELSE /\ MergeSettled(selectedIds, contactsToMerge, "none",
                                mergeContactsSmartly(contactsToMerge, "none"))
                /\ UNCHANGED << mergeOps, ops >>
    /\ UNCHANGED << viewMode, enrichOps, searchOps, isSearching, deleteTargetId,
                    nextId >>
    /\ UNCHANGED deletedIds

\* handleConfirmMerge after its await
MergeReturn(i, out) ==
    /\ ~crashed
    /\ i \in 1..Len(mergeOps) /\ out \in MergeOutcomes
    /\ MergeSettled(mergeOps[i].selectedIds, mergeOps[i].cs, out,
                    mergeContactsSmartly(mergeOps[i].cs, out))
    /\ mergeOps' = Remove(mergeOps, i)
    /\ UNCHANGED << viewMode, enrichOps, searchOps, isSearching, deleteTargetId,
                    nextId, ops >>
    /\ UNCHANGED deletedIds

-----------------------------------------------------------------------------
(* The specification *)

Next ==
    \/ \E id \in 1..(nextId - 1) : ListClick(id)
    \/ \E id \in 1..(nextId - 1) : NodeClick(id)
    \/ ShowGraph
    \/ ToggleMergeMode
    \/ \E id \in 1..(nextId - 1) : toggleMergeSelection(id)
    \/ \E p \in Previews : handleSaveContact(p)
    \/ RequestDelete
    \/ CancelDelete
    \/ confirmDelete
    \/ \E id \in 1..(nextId - 1), l \in Labels : handleAddRelation(id, l)
    \/ \E m \in {"WEB", "MANUAL"} : setEnrichMode(m)
    \/ \E t \in ManualTexts : setManualText(t)
    \/ handleSearchInfo
    \/ \E i \in 1..Len(searchOps), out \in SearchOutcomes : SearchReturn(i, out)
    \/ handleEnrich
    \/ \E i \in 1..Len(enrichOps), out \in EnrichOutcomes : EnrichReturn(i, out)
    \/ handleConfirmMerge
    \/ \E i \in 1..Len(mergeOps), out \in MergeOutcomes : MergeReturn(i, out)

Spec == Init /\ [][Next]_vars

-----------------------------------------------------------------------------
(* The enrichment pipeline on its own: from the grounding chunks of a search
   to the sources shown, the sources ignored, the payload, the request and
   the cleaned response.  The inputs are drawn in the initial state and each
   step applies the function of the code to what the step before produced;
   the store is left as constructed. *)

MaxChunks == 3

appVars == << contacts, selectedContactId, viewMode, isMergeMode,
              mergeSelection, isMerging, mergeOps, enrichOps, searchOps,
              isSearching, enrichMode, searchResults, manualText,
              deleteTargetId, nextId, ops, crashed, deletedIds >>

\* grounding chunks: two of the same uri with different titles, one of
\* another uri without a title, one without a web uri
GroundingChunks ==
    { [uri |-> "https://a.io/1", title |-> "A1"],
      [uri |-> "https://a.io/1", title |-> "A2"],
      [uri |-> "https://b.io/2"],
      [title |-> "NoUri"] }

ChunkSeqs ==
    UNION { [1..n -> GroundingChunks] : n \in 0..MaxChunks }

\* response.text of the search: empty, or a summary
SummaryTexts == { << >>, << "about", "LiMing" >> }

ImageLists == { << >>, << "img" >> }

PInit ==
    /\ Constructed
    /\ \E ch \in ChunkSeqs, w \in SummaryTexts, m \in {"WEB", "MANUAL"},
          t \in KnownTexts, im \in ImageLists :
          last = [ op |-> "input", chunks |-> ch, summary |-> w, mode |-> m,
                   text |-> t, images |-> im ]

\* searchPersonInfo on the response, then setSearchResults; the ignored
\* urls start empty
Gather ==
    /\ last.op = "input"
    /\ last' = [ op |-> "gathered", chunks |-> last.chunks,
                 mode |-> last.mode, text |-> last.text,
                 images |-> last.images,
                 result |-> SearchResultOf(last.summary, last.chunks),
                 ignored |-> {} ]
    /\ UNCHANGED appVars

\* const toggleSourceIgnore, on a source of the list shown
toggleSourceIgnore(url) ==
    /\ last.op = "gathered"
    /\ url \in { last.result.sources[k].url :
                    k \in 1..Len(last.result.sources) }
    /\ last' = [last EXCEPT !.ignored = IF url \in @ THEN @ \ {url}
                                        ELSE @ \cup {url}]
    /\ UNCHANGED appVars

\* the payload of handleEnrich and the request enrichContactProfile makes
\* of it
BuildRequest ==
    /\ last.op = "gathered"
    /\ LET payload == EnrichPayload(last.mode, << last.result >>,
                                    last.ignored, last.text, last.images)
       IN  last' = [ op |-> "requested", chunks |-> last.chunks,
                     mode |-> last.mode, text |-> last.text,
                     result |-> last.result, ignored |-> last.ignored,
                     payload |-> payload,
                     request |-> EnrichRequest(payload) ]
    /\ UNCHANGED appVars

\* the response text arrives and is cleaned and parsed
CleanResponse(resp) ==
    /\ last.op = "requested"
    /\ last' = [ op |-> "cleaned", request |-> last.request,
                 mode |-> last.mode, text |-> last.text,
                 response |-> resp, jsonStr |-> cleanJson(resp),
                 parsed |-> parses(cleanJson(resp)) ]
    /\ UNCHANGED appVars

PNext ==
    \/ Gather
    \/ \E url \in {"https://a.io/1", "https://b.io/2"} : toggleSourceIgnore(url)
    \/ BuildRequest
    \/ \E resp \in ResponseTexts : CleanResponse(resp)

PipelineSpec == PInit /\ [][PNext]_vars

-----------------------------------------------------------------------------
(* Properties *)

\* the last step ended a merge of at least two stored contacts
MergeEnded == last.op = "merge" /\ Len(last.cs) >= 2

\* the last step ended an enrich
EnrichEnded == last.op = "enrich"

\* C1: no two entities of the store share an id, in every state reachable by
\* interleaving save, delete, relation-add, enrich with discovery, and merge.
NoDuplicateIds ==
    \A i, j \in 1..Len(contacts) : i # j => contacts[i].id # contacts[j].id

\* a merge has just replaced its selection while a discovered contact is in
\* the store
NoDuplicateIdsWitness ==
    /\ MergeEnded /\ last.alert = "mergeOk"
    /\ \E i \in 1..Len(contacts) :
          Has(contacts[i], "tags") /\ DISCOVERED_TAG \in Range(contacts[i].tags)

\* C2: after a merge of at least two stored contacts has been written to
\* the store, exactly one entity carries the survivor id (the id of the
\* first contact merged, whatever id the oracle's object holds), no
\* entity carries another id of the selection, and the entities outside the
\* selection are as they were.
MergeKeepsSurvivorOnly ==
    (MergeEnded /\ last.alert = "mergeOk") =>
        LET survivorId == last.cs[1].id
        IN  /\ Cardinality({i \in 1..Len(contacts) : contacts[i].id = survivorId}) = 1
            /\ \A id \in Range(last.selectedIds) \ {survivorId} : id \notin Ids(contacts)
            /\ FilterOut(contacts, Range(last.selectedIds))
                 = FilterOut(last.before, Range(last.selectedIds))

\* a merge applied an oracle object that names another id than the survivor's
MergeKeepsSurvivorOnlyWitness ==
    /\ MergeEnded /\ last.out = "MFull"
    /\ MergeData("MFull").id # last.cs[1].id
    /\ FilterOut(contacts, Range(last.selectedIds)) # << >>

\* C3: when the oracle call of a merge of at least two contacts throws,
\* mergeContactsSmartly returns (does not raise) the first contact.
MergeThrowReturnsFirst ==
    (MergeEnded /\ last.out = "throw") =>
        /\ ~last.result.threw
        /\ last.result.value = last.cs[1]

\* C4: a merge of at least two contacts that is not applied (the call throws
\* or its text does not parse) is reported as a failure and leaves the store
\* as it was.
MergeNotAppliedIsVisible ==
    (MergeEnded /\ last.out \in {"throw", "unparseable"}) =>
        /\ last.alert = "mergeFail"
        /\ contacts = last.before

\* C5: an enrich that fails before discovery (the call throws or its text
\* does not parse) ends in an error and leaves the store as it was.
EnrichFailureLeavesStore ==
    (EnrichEnded /\ last.out \in {"throw", "unparseable"}) =>
        /\ last.alert = "enrichFail"
        /\ contacts = last.before

\* C6: no two suspended enriches, and no suspended enrich and suspended
\* merge, are on the same entity id.
OneMutationPerEntity ==
    /\ \A i, j \in 1..Len(enrichOps) :
          i # j => enrichOps[i].cur.id # enrichOps[j].cur.id
    /\ \A i \in 1..Len(enrichOps), j \in 1..Len(mergeOps) :
          enrichOps[i].cur.id \notin Ids(mergeOps[j].cs)

\* C7: discovery inserts no contact whose name is the name of an entity in
\* the store at the moment the new contacts are written.
DiscoveryAddsNoKnownName ==
    (EnrichEnded /\ last.alert = "enrichOk") =>
        \A k \in 1..Len(last.stubs) : NameOf(last.stubs[k]) \notin Names(last.before)

\* the names of the well-formed entries of the patched relatedPeople that are
\* neither the patched entity's name nor a name of the contacts the call saw
NewNames(op, out) ==
    LET r == enrichContactProfile(op.cur, out)
    IN  IF r.threw \/ ~Has(r.value, "relatedPeople") THEN {}
        ELSE { NameOf(r.value.relatedPeople[k]) :
                  k \in { x \in 1..Len(r.value.relatedPeople) :
                             /\ Has(r.value.relatedPeople[x], "name")
                             /\ Has(r.value.relatedPeople[x], "relationship") } }
             \ (op.names \cup {NameOf(r.value)})

\* C8: one enrich call creates as many contacts as there are distinct new
\* names in the patched relatedPeople.
OneStubPerNewName ==
    EnrichEnded => Len(last.stubs) = Cardinality(NewNames(last.closure, last.out))

\* C9: the entity a merge produces and the contacts discovery produces have
\* no two relatedPeople entries of one name.
ProducedHaveNoDupRelated ==
    /\ (MergeEnded /\ last.alert = "mergeOk" /\ Has(last.result.value, "relatedPeople"))
          => ~HasDupNames(last.result.value.relatedPeople)
    /\ EnrichEnded =>
          \A k \in 1..Len(last.stubs) : ~HasDupNames(last.stubs[k].relatedPeople)

\* labels of a repeated relation-add
RepeatLabels == {"Friend", "Mentor"}

RelationAdded == last.op = "addRelation" /\ ~last.threw

\* C10: a relation-add leaves neither of its two entities with two
\* relatedPeople entries of one name when it had none, and the same
\* relation-add done again (same pair, any label) changes nothing.
RelationAddNoDupIdempotent ==
    RelationAdded =>
        LET sel == contacts[FindIndex(contacts, last.selected)]
            tgt == contacts[FindIndex(contacts, last.target)]
        IN  /\ \A i \in 1..Len(contacts) :
                  (contacts[i].id \in {last.selected, last.target}
                     /\ ~HasDupNames(last.before[i].relatedPeople))
                  => ~HasDupNames(contacts[i].relatedPeople)
            /\ ~AddRelationThrows(contacts, sel, tgt)
            /\ \A l \in RepeatLabels : AddRelation(contacts, sel, tgt, l) = contacts

\* a relation-add has added an entry
RelationAddWitness ==
    RelationAdded /\ contacts # last.before

-----------------------------------------------------------------------------
(* Properties of the merged profile *)

\* the merge outcomes whose text parses
MergeParsed == {"MFull", "MDup", "MEmpty"}

\* the last step ended a merge of at least two contacts whose text parsed
MergeBuilt == MergeEnded /\ last.out \in MergeParsed

TagsOf(c) == IF Has(c, "tags") THEN Range(c.tags) ELSE {}

\* C11: the tags of the result of a merge of at least two contacts are the
\* set union of the tags of the contacts merged, whatever the oracle's
\* object holds.
MergeTagsAreUnion ==
    MergeBuilt =>
        /\ Has(last.result.value, "tags")
        /\ Range(last.result.value.tags)
             = UNION { TagsOf(last.cs[i]) : i \in 1..Len(last.cs) }

\* the non-empty notes of cs in order, joined by the separator
RECURSIVE JoinNonEmptyNotes(_)
JoinNonEmptyNotes(cs) ==
    IF Len(cs) = 0 THEN << >>
    ELSE LET rest == JoinNonEmptyNotes(Tail(cs))
         IN  IF cs[1].notes = << >> THEN rest
             ELSE IF rest = << >> THEN cs[1].notes
             ELSE cs[1].notes \o << SEP >> \o rest

\* C12: the notes of a merge result are the non-empty notes of the contacts
\* merged, in order, joined by the blank-line separator; empty notes add
\* neither text nor a separator.
MergeNotesSkipEmpty ==
    MergeBuilt => last.result.value.notes = JoinNonEmptyNotes(last.cs)

\* the fields of the fallback rule that the model's contacts carry
FallbackFields == {"name", "title", "company", "summary"}

\* whether contact c has a non-empty value of field f
NonEmptyField(c, f) ==
    /\ Has(c, f)
    /\ IF f = "summary" THEN c[f] # << >> ELSE c[f] # ""

\* C13: when the oracle's merge object omits one of name, title, company or
\* summary and some contact merged has a non-empty value of it, the result
\* holds the value of the first such contact.
MergeFallsBackToInputs ==
    MergeBuilt =>
        \A f \in FallbackFields :
            LET with == { i \in 1..Len(last.cs) : NonEmptyField(last.cs[i], f) }
            IN  (~Has(MergeData(last.out), f) /\ with # {}) =>
                    LET first == CHOOSE i \in with : \A j \in with : i <= j
                    IN  /\ Has(last.result.value, f)
                        /\ last.result.value[f] = last.cs[first][f]

\* C14: mergeContactsSmartly of one contact returns that contact with no
\* oracle call; so the result of a merge, merged again alone, is itself.
MergeOfOneIsIdentity ==
    /\ (last.op = "merge" /\ Len(last.cs) = 1) =>
          /\ last.out = "none"
          /\ last.result = Returned(last.cs[1])
    /\ (MergeEnded /\ ~last.result.threw) =>
          LET one == << last.result.value >>
          IN  /\ ~MergeNeedsOracle(one)
              /\ \A out \in MergeOutcomes \cup {"none"} :
                    mergeContactsSmartly(one, out) = Returned(last.result.value)

\* a merge found one contact of its selection left in the store and
\* returned it
MergeOfOneWitness ==
    /\ last.op = "merge" /\ Len(last.cs) = 1
    /\ last.alert = "mergeOk"
    /\ contacts[1] = last.cs[1]

-----------------------------------------------------------------------------
(* Properties of the derived links *)

\* the name of the contact of that id, undefined for none
NameOfId(store, id) ==
    IF id \in Ids(store) THEN NameOf(store[FindIndex(store, id)]) ELSE UNDEF

LabelOf(rel) == IF Has(rel, "relationship") THEN rel.relationship ELSE UNDEF

\* the positions in links of the explicit links from the contact of id
ExplicitFrom(links, id) ==
    { j \in 1..Len(links) : links[j].value = 2 /\ links[j].source = id }

\* C15: for every contact A and every entry r of A.relatedPeople, the links
\* hold an explicit link (A.id, B.id, 2, r.relationship) to a contact B named
\* r.name exactly when some contact has that name (also when several have
\* it); an entry naming no contact gives no link.
ExplicitLinkPerKnownName ==
    LET d == deriveLinks(contacts)
    IN  ~d.threw =>
          \A i \in 1..Len(contacts) :
             LET A == contacts[i]
                 from == ExplicitFrom(d.value, A.id)
                 known == { k \in 1..Len(A.relatedPeople) :
                               NameOf(A.relatedPeople[k]) \in Names(contacts) }
             IN  /\ Cardinality(from) = Cardinality(known)
                 /\ \A j \in from : d.value[j].target \in Ids(contacts)
                 /\ \A k \in 1..Len(A.relatedPeople) :
                       (k \in known) <=>
                          \E j \in from :
                             /\ NameOfId(contacts, d.value[j].target)
                                   = NameOf(A.relatedPeople[k])
                             /\ d.value[j].type = LabelOf(A.relatedPeople[k])

\* two contacts share a name that a third contact's relatedPeople holds
ExplicitLinkWitness ==
    /\ ~deriveLinks(contacts).threw
    /\ \E i, j, a \in 1..Len(contacts) :
          /\ i # j /\ a # i /\ a # j
          /\ NameOf(contacts[i]) = NameOf(contacts[j])
          /\ \E k \in 1..Len(contacts[a].relatedPeople) :
                NameOf(contacts[a].relatedPeople[k]) = NameOf(contacts[i])

\* whether the two contacts have one non-empty company
SameCompany(a, b) ==
    /\ Has(a, "company") /\ Has(b, "company")
    /\ a.company # "" /\ a.company = b.company

\* the positions in links of the inferred links between the two ids
InferredBetween(links, x, y) ==
    { j \in 1..Len(links) :
         /\ links[j].value = 1
         /\ << links[j].source, links[j].target >> \in { << x, y >>, << y, x >> } }

\* C16: for every two contacts of different ids with one non-empty company
\* the links hold exactly one inferred link (value 1, type "Colleague"), from
\* the smaller id to the larger; for any other two contacts they hold none.
OneInferredLinkPerPair ==
    LET d == deriveLinks(contacts)
    IN  ~d.threw =>
          \A i, j \in 1..Len(contacts) :
             (i < j /\ contacts[i].id # contacts[j].id) =>
                LET x == contacts[i].id
                    y == contacts[j].id
                    between == InferredBetween(d.value, x, y)
                IN  IF SameCompany(contacts[i], contacts[j])
                    THEN /\ Cardinality(between) = 1
                         /\ \A e \in between :
                               /\ IdLess(d.value[e].source, d.value[e].target)
                               /\ d.value[e].type = "Colleague"
                    ELSE between = {}

\* three contacts of one company: three inferred links
InferredLinkWitness ==
    LET d == deriveLinks(contacts)
    IN  /\ ~d.threw
        /\ Cardinality({ j \in 1..Len(d.value) : d.value[j].value = 1 }) = 3

\* C17: the derivation of the links ends without error on every store the
\* operations can reach.
DeriveLinksNeverFails == ~deriveLinks(contacts).threw

-----------------------------------------------------------------------------
(* Properties of discovery and of the enriched contact *)

\* the relationship labels that contain "organization" or "company" in any
\* case
OrgLabels == {"Partner Company", "ORGANIZATION", "Non-profit Organization"}

\* isOrg holds of exactly the labels that contain one of the two words
LabelsClassified ==
    \A l \in KnownLabels : IsOrg(RelatedPerson("x", l)) <=> l \in OrgLabels

\* the last step ended an enrich that wrote to the store
EnrichWrote == EnrichEnded /\ last.alert = "enrichOk"

\* the entry of rels that a discovered contact of name n was made from: the
\* first of that name
FirstNamed(rels, n) ==
    rels[CHOOSE x \in 1..Len(rels) :
            /\ NameOf(rels[x]) = n
            /\ \A y \in 1..(x - 1) : NameOf(rels[y]) # n]

\* C18: every contact that discovery creates has the entry's name, exactly
\* one related person (the enriched contact's name, "Origin Connection") and
\* the discovery tag; it is an organization (company = its name, title = the
\* organization title) exactly when the label contains "organization" or
\* "company" in any case, and otherwise a person with empty company.
StubsHaveDiscoveryShape ==
    /\ LabelsClassified
    /\ EnrichWrote =>
          \A k \in 1..Len(last.stubs) :
             LET stub == last.stubs[k]
                 rel  == FirstNamed(last.enriched.relatedPeople, stub.name)
             IN  /\ stub.relatedPeople
                      = << RelatedPerson(NameOf(last.enriched), "Origin Connection") >>
                 /\ DISCOVERED_TAG \in Range(stub.tags)
                 /\ \E i \in 1..Len(contacts) : contacts[i] = stub
                 /\ IF rel.relationship \in OrgLabels
                    THEN stub.company = stub.name /\ stub.title = ORG_TITLE
                    ELSE stub.company = "" /\ stub.title = rel.relationship

\* one enrich created an organization and a person
StubsWitness ==
    /\ EnrichWrote
    /\ \E j, k \in 1..Len(last.stubs) :
          /\ last.stubs[j].title = ORG_TITLE
          /\ last.stubs[k].company = ""

\* the enrich outcomes whose text parses
EnrichParsed == {"EDiscover", "EId", "EMalformed"}

\* C19: discovery fails no enrich: when the parsed updates hold a related
\* person without name or relationship, the enrich still ends well, writes
\* the updated contact and creates the contacts of the well-formed entries.
DiscoverySkipsMalformed ==
    (EnrichEnded /\ last.out \in EnrichParsed) =>
        /\ last.alert = "enrichOk"
        /\ { NameOf(last.stubs[k]) : k \in 1..Len(last.stubs) }
             = NewNames(last.closure, last.out)

\* C20: the updated contact of an enrich that ended well has every field of
\* the parsed updates with the updates' value and every other field of the
\* target with the target's value (tags, relatedPeople and notes are
\* replaced, not joined).
EnrichOverwritesShallowly ==
    (EnrichWrote /\ last.out \in EnrichParsed) =>
        LET target  == last.closure.cur
            updates == EnrichUpdates(last.out)
        IN  /\ DOMAIN last.enriched = (DOMAIN target) \cup (DOMAIN updates)
            /\ \A f \in DOMAIN updates : last.enriched[f] = updates[f]
            /\ \A f \in (DOMAIN target) \ (DOMAIN updates) :
                  last.enriched[f] = target[f]

\* an enrich replaced the related people and the summary of its target
EnrichOverwritesWitness ==
    /\ EnrichWrote /\ last.out = "EDiscover"
    /\ last.enriched.relatedPeople # last.closure.cur.relatedPeople
    /\ last.enriched.tags = last.closure.cur.tags

\* C21: an enrich that ended well leaves every contact other than its target
\* as it was, and the contact it writes carries the target's id, whatever
\* the updates hold (an id of another contact included).
EnrichKeepsIdAndOthers ==
    EnrichWrote =>
        LET target == last.closure.cur
        IN  /\ last.enriched.id = target.id
            /\ \A i \in 1..Len(last.before) :
                  last.before[i].id # target.id => contacts[i] = last.before[i]

-----------------------------------------------------------------------------
(* Properties of the evidence of an enrich *)

\* the payload holds no web summary, no manual text and no manual image
EmptyEvidence(payload) ==
    /\ Has(payload, "webSummary") => payload.webSummary = << >>
    /\ Has(payload, "manualText") => payload.manualText = ""
    /\ Has(payload, "manualImages") => payload.manualImages = << >>

\* C22: no enrich is suspended on an oracle call made with empty evidence,
\* and an enrich with empty evidence that ended has not changed the store.
NoCallWithoutEvidence ==
    /\ \A i \in 1..Len(enrichOps) : ~EmptyEvidence(enrichOps[i].payload)
    /\ (EnrichEnded /\ EmptyEvidence(last.closure.payload)) =>
          contacts = last.before

\* C28: the web summary an enrich hands to the oracle is the answer to a
\* search for the contact being enriched.
EvidenceBelongsToTarget ==
    \A i \in 1..Len(enrichOps) :
        LET payload == enrichOps[i].payload
        IN  (Has(payload, "webSummary") /\ payload.webSummary # << >>) =>
                payload.webSummary = SearchText(NameOf(enrichOps[i].cur), "SFound")

-----------------------------------------------------------------------------
(* Properties of the interleavings *)

\* C26: the id a merge keeps is the id of the contact selected first, in
\* whatever order the contacts were selected.
SurvivorIsFirstSelected ==
    (MergeEnded /\ ~last.result.threw /\ last.selectedIds[1] \in Ids(last.cs)) =>
        last.result.value.id = last.selectedIds[1]

\* C27: no contact of the store has an id that confirmDelete has removed,
\* also when an enrich or a merge that read the contact before ends after.
DeletedStayDeleted == \A id \in deletedIds : id \notin Ids(contacts)

\* C29: at most one merge is suspended on the oracle; isMerging holds
\* exactly while one is; the merge button is disabled while it holds; and it
\* is cleared when the merge ends, however it ends.
OneMergeInFlight ==
    /\ Len(mergeOps) <= 1
    /\ isMerging <=> mergeOps # << >>
    /\ isMerging => ~MergeButtonEnabled
    /\ last.op = "merge" => ~isMerging

\* a merge ended by an oracle error, and the button is enabled again
OneMergeWitness ==
    /\ MergeEnded /\ last.out = "throw"
    /\ isMergeMode /\ MergeButtonEnabled

\* C30: in the links derived from the store right after an enrich wrote to
\* it, every contact the enrich created has an explicit link to the
\* enriched contact's id.
StubLinksToEnriched ==
    EnrichWrote =>
        LET d == deriveLinks(contacts)
        IN  /\ ~d.threw
            /\ \A k \in 1..Len(last.stubs) :
                  \E j \in 1..Len(d.value) :
                     /\ d.value[j].source = last.stubs[k].id
                     /\ d.value[j].target = last.enriched.id
                     /\ d.value[j].value = 2

-----------------------------------------------------------------------------
(* Properties of the enrichment pipeline *)

\* the urls of a source list
UrlsOf(sources) == { sources[k].url : k \in 1..Len(sources) }

\* the entries of a source list whose url no earlier entry has
FirstOccurrences(sources) ==
    LET firsts == SelectSeq([i \in 1..Len(sources) |-> i],
                            LAMBDA i : \A j \in 1..(i - 1) :
                                          sources[j].url # sources[i].url)
    IN  [k \in 1..Len(firsts) |-> sources[firsts[k]]]

\* C24: the source list returned when search results are gathered holds each
\* URL at most once, and for a URL that occurs several times the entry kept
\* is its first occurrence (title and source), in first-occurrence order.
GatheredKeepsFirstOccurrence ==
    last.op = "gathered" =>
        /\ \A i, j \in 1..Len(last.result.sources) :
              i # j => last.result.sources[i].url # last.result.sources[j].url
        /\ last.result.sources = FirstOccurrences(SourcesOf(last.chunks))

\* C23: in a web-mode enrich the source list handed on is the gathered list
\* minus every source whose URL is ignored, and whenever at least one source
\* is ignored the request names the remaining sources as the only ones to
\* consider, also when every source is ignored.
TrustFilterRestricts ==
    (last.op = "requested" /\ last.mode = "WEB") =>
        LET remaining == SelectSeq(last.result.sources,
                                   LAMBDA src : src.url \notin last.ignored)
        IN  /\ last.payload.validSources = remaining
            /\ ( /\ last.result.summary # << >>
                 /\ last.ignored \cap UrlsOf(last.result.sources) # {} )
               => /\ last.request.restricted
                  /\ last.request.onlySources =
                        [k \in 1..Len(remaining) |->
                            [ title |-> remaining[k].title,
                              source |-> remaining[k].source ]]

\* the manual texts that hold a URL: with a scheme, or in the form the text
\* field itself gives as its example of a URL
TextsWithUrl == { "see https://a.io/1", "http://b.io/2", "linkedin.com/in/x" }

\* C25: every enrich request is in exactly one response mode: grounded (URL
\* resolution, no schema) exactly when the manual text holds a URL, strict
\* schema without URL resolution otherwise; and the code fences are gone from
\* a response before it is parsed.
OneResponseMode ==
    /\ last.op = "requested" =>
          LET grounded == Has(last.request.config, "tools")
              strict   == Has(last.request.config, "responseSchema")
          IN  /\ grounded # strict
              /\ grounded <=> ( /\ last.mode = "MANUAL"
                                /\ last.text \in TextsWithUrl )
              /\ last.request.visitUrls <=> grounded
    /\ last.op = "cleaned" =>
          /\ \A k \in 1..Len(last.jsonStr) :
                last.jsonStr[k] \notin {"FENCE-JSON", "FENCE"}
          /\ ("{json}" \in Range(last.response) /\ Len(last.jsonStr) = 1)
                => last.parsed

====
